---- MODULE Spec2Model ----
(***************************************************************************)
(* Model of ccd-tax (src/src/main.rs): paginated retrieval of account      *)
(* transactions, merge into a BTreeSet ordered by block_time, removal of   *)
(* internal transfers, conversion to Koinly rows and printing.             *)
(*                                                                         *)
(* Option<T> is modelled as a sequence: None is <<>>, Some(x) is <<x>>.    *)
(* An f64 amount in CCD is modelled as the reduced fraction <<num, den>>   *)
(* of the micro CCD value over 1,000,000.                                  *)
(***************************************************************************)
EXTENDS Integers, Sequences, FiniteSets, TLC

VARIABLES pc, ai, from, transactions, formatted, printed,
          log, fetched, merged, failedAt

vars == <<pc, ai, from, transactions, formatted, printed,
          log, fetched, merged, failedAt>>

----------------------------------------------------------------------------
(* Bounds *)

\* largest number of transactions in one response
MaxPageLen == 2
\* value of --api-limit for the run (echoed by the source as `limit`)
ApiLimit == 2
\* cap on the number of requests issued for one account
MaxCalls == 2
\* largest millisecond value a DateTime<Utc> holds (chrono's limit, scaled
\* down to the model's integers)
MaxMillis == 1000000

----------------------------------------------------------------------------
(* Option and sequence helpers *)

None == <<>>
Some(x) == <<x>>
IsSome(o) == Len(o) = 1
Unwrap(o) == o[1]

Range(s) == {s[i] : i \in 1..Len(s)}

Abs(n) == IF n < 0 THEN -n ELSE n

RECURSIVE GCD(_, _)
GCD(a, b) == IF b = 0 THEN a ELSE GCD(b, a % b)

\* `x as f64 / 1_000_000.0`: micro CCD to CCD
ToCcd(micro) ==
    LET g == GCD(1000000, Abs(micro))
    IN  <<micro \div g, 1000000 \div g>>

\* unary minus on an f64 amount
Neg(amount) == <<0 - amount[1], amount[2]>>

----------------------------------------------------------------------------
(* args *)

\* args.accounts
accounts == <<"A1", "A2">>

\* args.api_limit
api_limit == ApiLimit

\* Vec::contains
Contains(vec, x) == \E i \in 1..Len(vec) : vec[i] = x

----------------------------------------------------------------------------
(* Details, Transaction *)

Transfer(f, t) == [type |-> "transfer", from |-> Some(f), to |-> Some(t)]
PaydayAccountReward == [type |-> "paydayAccountReward", from |-> None, to |-> None]
Other == [type |-> "other", from |-> None, to |-> None]

\* One element of the `transactions` array of a response, as sent by the
\* wallet proxy.  blockTime is in seconds.
WireTx(id, blockTime, details, hash, cost, subtotal, total) ==
    [id |-> id, blockTime |-> blockTime, details |-> details,
     transactionHash |-> hash, cost |-> cost, subtotal |-> subtotal,
     total |-> total]

\* chrono::DateTime::from_timestamp_millis((timestamp * 1000.0) as i64):
\* None when out of range, else the time in milliseconds since the epoch
from_timestamp_millis(millis) ==
    IF millis > MaxMillis \/ millis < 0 - MaxMillis THEN None ELSE Some(millis)

\* deserialize_block_time: `.expect` panics on None
deserialize_block_time(timestamp) ==
    LET time == from_timestamp_millis(timestamp * 1000)
    IN  IF IsSome(time) THEN [panic |-> FALSE, time |-> Unwrap(time)]
        ELSE [panic |-> TRUE, time |-> 0]

\* struct Transaction, deserialized from one wire element
Transaction(w) ==
    [id |-> w.id,
     hash |-> w.transactionHash,
     block_time |-> deserialize_block_time(w.blockTime).time,
     details |-> w.details,
     cost |-> w.cost,
     subtotal |-> w.subtotal,
     total |-> w.total]

\* impl Ord for Transaction: cmp compares block_time only
cmp(a, b) ==
    IF a.block_time < b.block_time THEN "Less"
    ELSE IF a.block_time > b.block_time THEN "Greater"
    ELSE "Equal"

----------------------------------------------------------------------------
(* BTreeSet<Transaction>: a sequence strictly ascending under cmp *)

\* insert that appends instead of placing the element in order
BTreePush(set, tx) ==
    IF \E i \in 1..Len(set) : cmp(set[i], tx) = "Equal" THEN set
    ELSE Append(set, tx)

\* BTreeSet::insert: an element that compares Equal to a stored one is not
\* inserted and the stored one is kept
BTreeInsert(set, tx) ==
    IF \E i \in 1..Len(set) : cmp(set[i], tx) = "Equal" THEN set
    ELSE LET less == SelectSeq(set, LAMBDA e : cmp(e, tx) = "Less")
             greater == SelectSeq(set, LAMBDA e : cmp(e, tx) = "Greater")
         IN  less \o <<tx>> \o greater

\* BTreeSet::extend: inserts the elements one by one, in page order
RECURSIVE Extend(_, _)
Extend(set, txs) ==
    IF Len(txs) = 0 THEN set
    ELSE Extend(BTreeInsert(set, Head(txs)), Tail(txs))

\* the closure with || in place of &&
RetainPredOr(tx) ==
    ~(/\ tx.details.type = "transfer"
      /\ \/ Contains(accounts, Unwrap(tx.details.from))
         \/ Contains(accounts, Unwrap(tx.details.to)))

\* the closure of `transactions.retain(..)`: keep everything but a Transfer
\* whose source and destination are both in args.accounts
RetainPred(tx) ==
    ~(/\ tx.details.type = "transfer"
      /\ Contains(accounts, Unwrap(tx.details.from))
      /\ Contains(accounts, Unwrap(tx.details.to)))

\* BTreeSet::retain
Retain(set) == SelectSeq(set, RetainPred)

----------------------------------------------------------------------------
(* KoinlyRow *)

\* tx.block_time.naive_utc().format("%Y-%m-%d %H:%M UTC"): minute precision
FormatDate(block_time) == block_time \div 60000

\* KoinlyRow::new_ccd
new_ccd(date, amount, label, tx_hash) ==
    [date |-> date, amount |-> amount, currency |-> "CCD",
     label |-> label, tx_hash |-> tx_hash]

\* try_from comparing total with cost without unsigned_abs
try_from_no_abs(tx) ==
    IF ~IsSome(tx.total) THEN [ok |-> FALSE, rows |-> <<>>]
    ELSE
      LET total == Unwrap(tx.total)
          amount == ToCcd(IF IsSome(tx.subtotal) THEN Unwrap(tx.subtotal) ELSE total)
          label == IF tx.details.type = "paydayAccountReward"
                   THEN Some("Mining") ELSE None
          value == new_ccd(FormatDate(tx.block_time), amount, label, tx.hash)
      IN  IF ~IsSome(tx.cost) THEN [ok |-> TRUE, rows |-> <<value>>]
          ELSE
            LET cost == Unwrap(tx.cost)
                fee == new_ccd(FormatDate(tx.block_time), Neg(ToCcd(cost)),
                               Some("Fee"), tx.hash)
            IN  IF total = cost THEN [ok |-> TRUE, rows |-> <<fee>>]
                ELSE [ok |-> TRUE, rows |-> <<value, fee>>]

\* try_from taking the principal amount from total, never from subtotal
try_from_total_only(tx) ==
    IF ~IsSome(tx.total) THEN [ok |-> FALSE, rows |-> <<>>]
    ELSE
      LET total == Unwrap(tx.total)
          amount == ToCcd(total)
          label == IF tx.details.type = "paydayAccountReward"
                   THEN Some("Mining") ELSE None
          value == new_ccd(FormatDate(tx.block_time), amount, label, tx.hash)
      IN  IF ~IsSome(tx.cost) THEN [ok |-> TRUE, rows |-> <<value>>]
          ELSE
            LET cost == Unwrap(tx.cost)
                fee == new_ccd(FormatDate(tx.block_time), Neg(ToCcd(cost)),
                               Some("Fee"), tx.hash)
            IN  IF Abs(total) = cost THEN [ok |-> TRUE, rows |-> <<fee>>]
                ELSE [ok |-> TRUE, rows |-> <<value, fee>>]

\* TryFrom<&Transaction> for Vec<KoinlyRow>
try_from(tx) ==
    IF ~IsSome(tx.total) THEN [ok |-> FALSE, rows |-> <<>>]
    ELSE
      LET total == Unwrap(tx.total)
          amount == ToCcd(IF IsSome(tx.subtotal) THEN Unwrap(tx.subtotal) ELSE total)
          label == IF tx.details.type = "paydayAccountReward"
                   THEN Some("Mining") ELSE None
          value == new_ccd(FormatDate(tx.block_time), amount, label, tx.hash)
      IN  IF ~IsSome(tx.cost) THEN [ok |-> TRUE, rows |-> <<value>>]
          ELSE
            LET cost == Unwrap(tx.cost)
                fee == new_ccd(FormatDate(tx.block_time), Neg(ToCcd(cost)),
                               Some("Fee"), tx.hash)
            IN  IF Abs(total) = cost THEN [ok |-> TRUE, rows |-> <<fee>>]
                ELSE [ok |-> TRUE, rows |-> <<value, fee>>]

\* collecting into a Result instead of filter_map: one failing transaction
\* leaves no rows at all
CollectOrAbort(txs) ==
    IF \E i \in 1..Len(txs) : ~try_from(txs[i]).ok THEN <<>>
    ELSE LET F[k \in 0..Len(txs)] ==
                 IF k = 0 THEN <<>> ELSE F[k - 1] \o try_from(txs[k]).rows
         IN  F[Len(txs)]

\* transactions.iter().filter_map(|tx| try_from(tx).ok()).flatten().collect()
RECURSIVE FilterMapFlatten(_)
FilterMapFlatten(txs) ==
    IF Len(txs) = 0 THEN <<>>
    ELSE LET r == try_from(Head(txs))
         IN  (IF r.ok THEN r.rows ELSE <<>>) \o FilterMapFlatten(Tail(txs))

----------------------------------------------------------------------------
(* request_transactions *)

\* has_more computed with <= in place of ==
HasMoreLe(res) == res.count <= res.limit

\* has_more = res.count == res.limit
HasMore(res) == res.count = res.limit

\* Outcome of one request: Err (transport error or malformed payload),
\* a panic inside deserialize_block_time, or Ok((res, has_more))
request_transactions(reply) ==
    IF reply.kind # "ok" THEN [tag |-> "err", res |-> <<>>, has_more |-> FALSE]
    ELSE IF \E i \in 1..Len(reply.transactions) :
              deserialize_block_time(reply.transactions[i].blockTime).panic
    THEN [tag |-> "panic", res |-> <<>>, has_more |-> FALSE]
    ELSE [tag |-> "ok",
          res |-> [i \in 1..Len(reply.transactions) |->
                      Transaction(reply.transactions[i])],
          has_more |-> HasMore(reply)]

\* the loop without the empty-page break: it asks again with the old cursor
LoopControlRetry(cursor, txs, has_more) ==
    IF ~has_more THEN [brk |-> TRUE, from |-> cursor]
    ELSE IF Len(txs) = 0 THEN [brk |-> FALSE, from |-> cursor]
    ELSE [brk |-> FALSE, from |-> Some(txs[Len(txs)].id)]

\* lines 222-229 of main: break on !has_more, break on an empty page,
\* otherwise continue with from = Some(last.id)
LoopControl(cursor, txs, has_more) ==
    IF ~has_more THEN [brk |-> TRUE, from |-> cursor]
    ELSE IF Len(txs) = 0 THEN [brk |-> TRUE, from |-> cursor]
    ELSE [brk |-> FALSE, from |-> Some(txs[Len(txs)].id)]

----------------------------------------------------------------------------
(* The wallet proxy: what it may answer to one GET *)

\* Transactions the source may return for each of args.accounts; the
\* transfer between the two accounts is in the history of both.  Block
\* times are whole minutes (in seconds) except the last one of the second
\* account, which is beyond what a DateTime holds.
WireUniverse ==
    << { WireTx(1, 60, Transfer("A1", "A2"), Some("h1"), Some(200), Some(-4800), Some(-5000)),
         WireTx(2, 60, Transfer("A1", "X"), Some("h2"), Some(200), None, Some(5000)),
         WireTx(3, 120, PaydayAccountReward, None, None, None, Some(2000000)),
         WireTx(8, 180, Transfer("X", "Y"), Some("h4"), Some(200), Some(4800), None),
         WireTx(4, 300, Transfer("X", "A1"), Some("h8"), Some(200), Some(4800), Some(5000)) },
       { WireTx(1, 60, Transfer("A1", "A2"), Some("h1"), Some(200), Some(-4800), Some(-5000)),
         WireTx(5, 120, Other, Some("h5"), Some(1000), Some(0), Some(-1000)),
         WireTx(6, 240, Transfer("A2", "A2"), Some("h6"), Some(200), Some(-200), Some(-400)),
         WireTx(7, 2000, Other, Some("h7"), None, None, Some(1000)) } >>

\* sequences of at most n distinct elements of S
RECURSIVE SeqsUpTo(_, _)
SeqsUpTo(S, n) ==
    IF n = 0 THEN {<<>>}
    ELSE LET shorter == SeqsUpTo(S, n - 1)
         IN  shorter \cup {Append(s, x) : s \in shorter, x \in S}

NoRepeat(s) == \A i, j \in 1..Len(s) : s[i] = s[j] => i = j

\* struct TransactionsResponse as sent for account number a, or a failed
\* request
Replies ==
    [a \in 1..Len(accounts) |->
       [kind : {"ok"}, count : 0..ApiLimit, limit : {api_limit},
        transactions : {p \in SeqsUpTo(WireUniverse[a], MaxPageLen) : NoRepeat(p)}]
       \cup
       [kind : {"transport_error", "malformed"}, count : {0}, limit : {api_limit},
        transactions : {<<>>}]]

----------------------------------------------------------------------------
(* main *)

Init ==
    /\ pc = IF Len(accounts) = 0 THEN "filter" ELSE "fetch"
    /\ ai = 1
    /\ from = None
    /\ transactions = <<>>
    /\ formatted = <<>>
    /\ printed = <<>>
    /\ log = [a \in 1..Len(accounts) |-> <<>>]
    /\ fetched = {}
    /\ merged = <<>>
    /\ failedAt = 0

\* leaving the `loop` of one account: next account, or the end of the `for`
NextAccount ==
    /\ from' = None
    /\ ai' = ai + 1
    /\ pc' = IF ai + 1 > Len(accounts) THEN "filter" ELSE "fetch"

\* one iteration of the `loop`, the request returning Ok
FetchPage ==
    /\ pc = "fetch"
    /\ Len(log[ai]) < MaxCalls
    /\ \E reply \in Replies[ai] :
         LET r == request_transactions(reply)
             ctl == LoopControl(from, r.res, r.has_more)
         IN  /\ r.tag = "ok"
             /\ transactions' = Extend(transactions, r.res)
             /\ log' = [log EXCEPT ![ai] =
                          Append(@, [short |-> reply.count < reply.limit,
                                     empty |-> Len(r.res) = 0,
                                     has_more |-> r.has_more])]
             /\ fetched' = fetched \cup {r.res[i].id : i \in 1..Len(r.res)}
             /\ IF ctl.brk THEN NextAccount
                ELSE /\ from' = ctl.from
                     /\ UNCHANGED <<ai, pc>>
    /\ UNCHANGED <<formatted, printed, merged, failedAt>>

\* the request returning Err: `?` returns the error from main
FetchError ==
    /\ pc = "fetch"
    /\ Len(log[ai]) < MaxCalls
    /\ \E reply \in Replies[ai] : request_transactions(reply).tag = "err"
    /\ pc' = "failed"
    /\ failedAt' = ai
    /\ UNCHANGED <<ai, from, transactions, formatted, printed, log, fetched,
                   merged>>

\* the request panicking in deserialize_block_time: the process aborts
FetchPanic ==
    /\ pc = "fetch"
    /\ Len(log[ai]) < MaxCalls
    /\ \E reply \in Replies[ai] : request_transactions(reply).tag = "panic"
    /\ pc' = "panicked"
    /\ UNCHANGED <<ai, from, transactions, formatted, printed, log, fetched,
                   merged, failedAt>>

\* transactions.retain(..)
Filter ==
    /\ pc = "filter"
    /\ merged' = transactions
    /\ transactions' = Retain(transactions)
    /\ pc' = "transform"
    /\ UNCHANGED <<ai, from, formatted, printed, log, fetched, failedAt>>

\* let formatted = ..collect()
Transform ==
    /\ pc = "transform"
    /\ formatted' = FilterMapFlatten(transactions)
    /\ pc' = "emit"
    /\ UNCHANGED <<ai, from, transactions, printed, log, fetched, merged,
                   failedAt>>

\* one iteration of `for row in formatted.iter()`
EmitRow ==
    /\ pc = "emit"
    /\ Len(printed) < Len(formatted)
    /\ printed' = Append(printed, formatted[Len(printed) + 1])
    /\ UNCHANGED <<pc, ai, from, transactions, formatted, log, fetched, merged,
                   failedAt>>

\* Ok(())
Finish ==
    /\ pc = "emit"
    /\ Len(printed) = Len(formatted)
    /\ pc' = "done"
    /\ UNCHANGED <<ai, from, transactions, formatted, printed, log, fetched,
                   merged, failedAt>>

Next ==
    \/ FetchPage
    \/ FetchError
    \/ FetchPanic
    \/ Filter
    \/ Transform
    \/ EmitRow
    \/ Finish

Spec == Init /\ [][Next]_vars

----------------------------------------------------------------------------
(* The Row Transformer alone: filter already done, one transaction in the   *)
(* ledger, its amounts drawn from a product of cases                        *)

RowInputs ==
    { WireTx(1, 60, d, IF d.type = "paydayAccountReward" THEN None ELSE Some("h1"),
             c, st, t) :
        d \in {Transfer("A1", "X"), PaydayAccountReward, Other},
        c \in {None, Some(0), Some(200), Some(1000), Some(5000)},
        st \in {None, Some(0), Some(4800), Some(-4800), Some(1000), Some(5200)},
        t \in {None, Some(0), Some(1000), Some(-1000), Some(5000), Some(-5000),
               Some(2000000)} }

RowInit ==
    /\ pc = "transform"
    /\ ai = Len(accounts) + 1
    /\ from = None
    /\ \E w \in RowInputs :
         /\ transactions = <<Transaction(w)>>
         /\ merged = <<Transaction(w)>>
         /\ fetched = {w.id}
    /\ formatted = <<>>
    /\ printed = <<>>
    /\ log = [a \in 1..Len(accounts) |-> <<>>]
    /\ failedAt = 0

RowNext ==
    \/ Transform
    \/ EmitRow
    \/ Finish

RowSpec == RowInit /\ [][RowNext]_vars

----------------------------------------------------------------------------
(* Properties *)

Owned == Range(accounts)

AfterTransform == pc \in {"emit", "done"}

AfterFilter == pc \in {"transform", "emit", "done"}

\* a Transfer between two of the requested accounts
IsSelfTransfer(tx) ==
    /\ tx.details.type = "transfer"
    /\ Unwrap(tx.details.from) \in Owned
    /\ Unwrap(tx.details.to) \in Owned

\* amount is the f64 value of micro / 1,000,000
IsCcd(amount, micro) == amount[1] * 1000000 = micro * amount[2]

IsFeeRow(row) == row.label = Some("Fee")

\* C1: once every page of every account has been merged, the ledger holds
\* exactly one transaction for each distinct id that appeared in a fetched
\* page: every fetched id is present, and no id is present twice.
C1_OneEntryPerFetchedId ==
    pc = "filter" =>
        /\ {transactions[i].id : i \in 1..Len(transactions)} = fetched
        /\ \A i, j \in 1..Len(transactions) :
               transactions[i].id = transactions[j].id => i = j

\* C2: a fetch failure on one account aborts only that account's loop: the
\* run goes on with the accounts listed after it and with filter, transform
\* and emit.
C2_FetchFailureIsIsolated ==
    failedAt # 0 =>
        /\ pc \in {"fetch", "filter", "transform", "emit", "done"}
        /\ pc = "fetch" => ai > failedAt

\* C3: in each account's sequence of requests, has_more is false exactly on
\* a short page (count < limit) and true on a full one; a short page is the
\* last request of its account and the loop has left the account after it;
\* every request before the last one had has_more true and a non-empty page;
\* and the loop leaves an account only after a short or an empty page.  So
\* full non-empty pages on calls 1..N-1 and a short page on call N give
\* exactly N requests.
C3_PaginationEndsAtShortPage ==
    \A a \in 1..Len(accounts) :
        /\ \A k \in 1..Len(log[a]) :
              /\ log[a][k].has_more = ~log[a][k].short
              /\ log[a][k].short => (k = Len(log[a]) /\ ai > a)
              /\ k < Len(log[a]) => (log[a][k].has_more /\ ~log[a][k].empty)
        /\ (ai > a /\ failedAt = 0 /\ pc # "panicked") =>
              /\ Len(log[a]) >= 1
              /\ log[a][Len(log[a])].short \/ log[a][Len(log[a])].empty

C3_Witness ==
    \E a \in 1..Len(accounts) :
        /\ Len(log[a]) = 2
        /\ ~log[a][1].short /\ ~log[a][1].empty /\ log[a][1].has_more
        /\ log[a][2].short /\ ~log[a][2].has_more
        /\ ai > a
        /\ pc = "done"

\* C4: the filter removes from the merged ledger exactly the Transfers whose
\* source and destination are both requested accounts (source = destination
\* included); every other transaction stays, unchanged and in the same
\* relative order.
C4_FilterRemovesExactlySelfTransfers ==
    AfterFilter =>
        transactions = SelectSeq(merged, LAMBDA tx : ~IsSelfTransfer(tx))

C4_Witness ==
    /\ pc = "done"
    /\ \E i \in 1..Len(merged) :
          /\ IsSelfTransfer(merged[i])
          /\ merged[i].details.from = merged[i].details.to
    /\ \E i \in 1..Len(merged) :
          /\ IsSelfTransfer(merged[i])
          /\ merged[i].details.from # merged[i].details.to
    /\ \E i \in 1..Len(transactions) :
          /\ transactions[i].details.type = "transfer"
          /\ Unwrap(transactions[i].details.to) \in Owned
    /\ \E i \in 1..Len(transactions) :
          transactions[i].details.type = "paydayAccountReward"

\* C5: a transaction with total and cost present and |total| = cost gives
\* exactly one row, the fee row: label Fee, amount -(cost / 1,000,000)
\* (-0.001 for cost = 1000), whatever the sign of total and whatever
\* subtotal is.
C5_FeeOnlyRow ==
    AfterTransform =>
        \A i \in 1..Len(transactions) :
            LET tx == transactions[i]
            IN  (/\ Len(transactions) = 1
                 /\ IsSome(tx.total) /\ IsSome(tx.cost)
                 /\ Abs(Unwrap(tx.total)) = Unwrap(tx.cost)) =>
                    /\ Len(formatted) = 1
                    /\ IsFeeRow(formatted[1])
                    /\ IsCcd(formatted[1].amount, 0 - Unwrap(tx.cost))
                    /\ Unwrap(tx.cost) = 1000 => formatted[1].amount = <<-1, 1000>>

C5_Witness ==
    /\ pc = "done"
    /\ Len(transactions) = 1
    /\ transactions[1].total = Some(-1000)
    /\ transactions[1].cost = Some(1000)
    /\ transactions[1].subtotal = Some(4800)
    /\ Len(printed) = 1
    /\ printed[1].amount = <<-1, 1000>>

\* C6 as stated: total = 5000 and cost = 200 give the principal row and then
\* the fee row, the principal amount being 0.0048 and the fee amount -0.0002.
C6_PrincipalIs4800 ==
    (/\ AfterTransform
     /\ Len(transactions) = 1
     /\ transactions[1].total = Some(5000)
     /\ transactions[1].cost = Some(200)) =>
            /\ Len(formatted) = 2
            /\ ~IsFeeRow(formatted[1])
            /\ formatted[1].amount = <<3, 625>>
            /\ IsFeeRow(formatted[2])
            /\ formatted[2].amount = <<-1, 5000>>

\* C6 amended: total = 5000 and cost = 200 give the principal row and then
\* the fee row; the principal amount is subtotal / 1,000,000 when subtotal is
\* present (0.0048 for subtotal = 4800) and total / 1,000,000 = 0.005 when it
\* is absent; the fee row has label Fee and amount -0.0002.
C6_PrincipalFromSubtotalElseTotal ==
    (/\ AfterTransform
     /\ Len(transactions) = 1
     /\ transactions[1].total = Some(5000)
     /\ transactions[1].cost = Some(200)) =>
            LET st == transactions[1].subtotal
            IN  /\ Len(formatted) = 2
                /\ ~IsFeeRow(formatted[1])
                /\ IsSome(st) => IsCcd(formatted[1].amount, Unwrap(st))
                /\ st = Some(4800) => formatted[1].amount = <<3, 625>>
                /\ st = None => formatted[1].amount = <<1, 200>>
                /\ IsFeeRow(formatted[2])
                /\ formatted[2].amount = <<-1, 5000>>

C6_Witness ==
    /\ pc = "done"
    /\ Len(transactions) = 1
    /\ transactions[1].total = Some(5000)
    /\ transactions[1].cost = Some(200)
    /\ transactions[1].subtotal = None
    /\ Len(printed) = 2
    /\ printed[1].amount = <<1, 200>>

\* rows of the transactions of txs, in order, each transformed on its own
RowsOf(txs) ==
    LET F[k \in 0..Len(txs)] ==
            IF k = 0 THEN <<>> ELSE F[k - 1] \o try_from(txs[k]).rows
    IN  F[Len(txs)]

\* C7: a transaction without total fails in the Row Transformer, also when
\* its subtotal or cost is present; the pipeline goes on, the transaction
\* contributes no row, and the output is the rows of the other surviving
\* transactions, unchanged and in ledger order.
C7_MissingTotalIsSkipped ==
    /\ \A i \in 1..Len(transactions) :
          ~IsSome(transactions[i].total) => ~try_from(transactions[i]).ok
    /\ AfterTransform =>
          /\ formatted = RowsOf(SelectSeq(transactions, LAMBDA tx : IsSome(tx.total)))
          /\ \A i \in 1..Len(transactions) : \A k \in 1..Len(formatted) :
                ~IsSome(transactions[i].total) =>
                    formatted[k].tx_hash # transactions[i].hash

C7_Witness ==
    /\ pc = "done"
    /\ \E i \in 1..Len(transactions) :
          /\ ~IsSome(transactions[i].total)
          /\ IsSome(transactions[i].cost)
          /\ IsSome(transactions[i].subtotal)
    /\ \E i \in 1..Len(transactions) : IsSome(transactions[i].total)
    /\ Len(printed) >= 3

\* C8: a block timestamp that cannot be represented excludes only its own
\* transaction: the run is never aborted because of it.
C8_BadTimestampIsIsolated == pc # "panicked"

\* C9: the ledger iterates in ascending block_time after every merge, in
\* whatever order pages arrived; the rows are emitted in ledger order (dates
\* never decrease, the two rows of one transaction are the principal row
\* followed by the fee row, and the dates are those of the transactions that
\* have a total); what is printed is a prefix of those rows.
C9_LedgerAndRowsAscending ==
    /\ \A i, j \in 1..Len(transactions) :
          i < j => transactions[i].block_time < transactions[j].block_time
    /\ AfterTransform =>
          /\ \A i, j \in 1..Len(formatted) :
                i < j =>
                   /\ formatted[i].date <= formatted[j].date
                   /\ formatted[i].date = formatted[j].date =>
                         (~IsFeeRow(formatted[i]) /\ IsFeeRow(formatted[j]))
          /\ {formatted[k].date : k \in 1..Len(formatted)}
                = {FormatDate(transactions[i].block_time) :
                     i \in {n \in 1..Len(transactions) : IsSome(transactions[n].total)}}
          /\ Len(printed) <= Len(formatted)
          /\ \A k \in 1..Len(printed) : printed[k] = formatted[k]

C9_Witness ==
    /\ pc = "done"
    /\ Len(transactions) >= 3
    /\ Len(printed) >= 4
    /\ \E k \in 1..(Len(printed) - 1) :
          /\ printed[k].date = printed[k + 1].date
          /\ IsFeeRow(printed[k + 1])
    /\ Len(log[1]) = 2 /\ Len(log[2]) = 2

\* C10: a page with has_more = true and no transactions is the last request
\* of its account: the loop leaves the account at once.
C10_EmptyPageEndsPagination ==
    \A a \in 1..Len(accounts) : \A k \in 1..Len(log[a]) :
        (log[a][k].has_more /\ log[a][k].empty) =>
            (k = Len(log[a]) /\ ai > a)

C10_Witness ==
    /\ pc = "done"
    /\ \E a \in 1..Len(accounts) :
          /\ Len(log[a]) = 2
          /\ log[a][2].has_more /\ log[a][2].empty

====
